---- MODULE Spec2Model ----
(***************************************************************************)
(* LinearRegressor of src/src/ols_regressor/regressor.py: an instance with *)
(* one attribute, coef, and the methods fit, predict and score.            *)
(*                                                                         *)
(* Python values are records {k, n, d, items}: k is the kind ("num" a      *)
(* finite number n/d in lowest terms, "nan", "inf" (sign n), "str" a       *)
(* string, "list" a Python list of items).  Arithmetic is exact rational   *)
(* arithmetic: rounding of float64 is outside the model.                   *)
(***************************************************************************)
EXTENDS Integers, Sequences, FiniteSets, TLC

VARIABLES coef, last, lastFit, data

vars == <<coef, last, lastFit, data>>

(***************************************************************************)
(* Numbers                                                                 *)
(***************************************************************************)
Abs(a) == IF a < 0 THEN -a ELSE a

RECURSIVE Gcd(_, _)
Gcd(a, b) == IF b = 0 THEN a ELSE Gcd(b, a % b)

Num(n, d) ==
    LET g == Gcd(Abs(n), Abs(d))
        s == IF d < 0 THEN -1 ELSE 1
    IN  [k |-> "num", n |-> (s * n) \div g, d |-> (s * d) \div g, items |-> <<>>]

IntVal(n) == Num(n, 1)
NaN == [k |-> "nan", n |-> 0, d |-> 1, items |-> <<>>]
Inf(s) == [k |-> "inf", n |-> s, d |-> 1, items |-> <<>>]
Str == [k |-> "str", n |-> 0, d |-> 1, items |-> <<>>]
List(xs) == [k |-> "list", n |-> 0, d |-> 1, items |-> xs]

Sign(a) == IF a.n < 0 THEN -1 ELSE IF a.n = 0 THEN 0 ELSE 1

\* float64 arithmetic on finite operands, exact
Add(a, b) == Num(a.n * b.d + b.n * a.d, a.d * b.d)
Sub(a, b) == Num(a.n * b.d - b.n * a.d, a.d * b.d)
Mul(a, b) == Num(a.n * b.n, a.d * b.d)

\* numpy true division of finite scalars: x/0 is nan or +-inf (a warning, not an error)
Div(a, b) ==
    IF b.n = 0
      THEN IF a.n = 0 THEN NaN ELSE Inf(Sign(a))
      ELSE Num(a.n * b.d, a.d * b.n)

\* a finite number minus the result of a division
SubF(a, b) ==
    CASE b.k = "nan" -> NaN
      [] b.k = "inf" -> Inf(-b.n)
      [] OTHER -> Sub(a, b)

RECURSIVE Sum(_)
Sum(xs) == IF xs = <<>> THEN IntVal(0) ELSE Add(Head(xs), Sum(Tail(xs)))

(***************************************************************************)
(* numpy arrays: np.array(obj) of a rectangular nested list                *)
(***************************************************************************)
RECURSIVE NpNdim(_)
NpNdim(o) ==
    IF o.k # "list" THEN 0
    ELSE IF o.items = <<>> THEN 1
    ELSE 1 + NpNdim(o.items[1])

RECURSIVE NpShape(_)
NpShape(o) ==
    IF o.k # "list" THEN <<>>
    ELSE IF o.items = <<>> THEN <<0>>
    ELSE <<Len(o.items)>> \o NpShape(o.items[1])

RECURSIVE NpFlat(_)
RECURSIVE NpFlatSeq(_)
NpFlatSeq(xs) == IF xs = <<>> THEN <<>> ELSE NpFlat(Head(xs)) \o NpFlatSeq(Tail(xs))
NpFlat(o) == IF o.k # "list" THEN <<o>> ELSE NpFlatSeq(o.items)

\* a single string makes np.array build a string array
NpNumeric(flat) == \A i \in 1..Len(flat) : flat[i].k # "str"

NpArray(o) ==
    [ndim |-> NpNdim(o), shape |-> NpShape(o), flat |-> NpFlat(o),
     numeric |-> NpNumeric(NpFlat(o))]

\* the rows of a 2-dimensional array, and the elements of a 1-dimensional one
Rows(a) ==
    [i \in 1..a.shape[1] |->
        [j \in 1..a.shape[2] |-> a.flat[(i - 1) * a.shape[2] + j]]]
Elems(a) == a.flat

(***************************************************************************)
(* Matrices of finite numbers, as sequences of rows                        *)
(***************************************************************************)
Transpose(A, c) == [j \in 1..c |-> [i \in 1..Len(A) |-> A[i][j]]]

Dot(u, v) == Sum([i \in 1..Len(u) |-> Mul(u[i], v[i])])

MatVec(A, v) == [i \in 1..Len(A) |-> Dot(A[i], v)]

\* A @ B with B given by its columns Bt = B.T
MatMulT(A, Bt) == [i \in 1..Len(A) |-> [j \in 1..Len(Bt) |-> Dot(A[i], Bt[j])]]

Drop(s, i) == [j \in 1..(Len(s) - 1) |-> IF j < i THEN s[j] ELSE s[j + 1]]
Minor(A, i, j) == [r \in 1..(Len(A) - 1) |-> Drop(Drop(A, i)[r], j)]

RECURSIVE Det(_)
Det(A) ==
    IF Len(A) = 0 THEN IntVal(1)
    ELSE IF Len(A) = 1 THEN A[1][1]
    ELSE Sum([j \in 1..Len(A) |->
                Mul(IF j % 2 = 1 THEN A[1][j] ELSE Sub(IntVal(0), A[1][j]),
                    Det(Minor(A, 1, j)))])

Singular(A) == Det(A).n = 0

\* Inv with the cofactor signs forgotten
Inv_Unsigned(A) ==
    LET dt == Det(A)
    IN  [i \in 1..Len(A) |-> [j \in 1..Len(A) |-> Div(Det(Minor(A, j, i)), dt)]]

\* the exact inverse of a non-singular square matrix
Inv(A) ==
    LET dt == Det(A)
    IN  [i \in 1..Len(A) |-> [j \in 1..Len(A) |->
            Div(Mul(IF (i + j) % 2 = 0 THEN IntVal(1) ELSE IntVal(-1), Det(Minor(A, j, i))),
                dt)]]

(***************************************************************************)
(* Exceptions                                                              *)
(***************************************************************************)
NoError == [type |-> "", msg |-> ""]
Raise(type, msg) == [type |-> type, msg |-> msg]

ErrX2D == Raise("ValueError", "X should be a 2D array.")
ErrY1D == Raise("ValueError", "y should be a 1D array.")
ErrSamples == Raise("ValueError", "The number of examples in X and y should be equal.")
ErrUnderdetermined ==
    Raise("ValueError",
          "The number of examples in X should be greater than the number of features.")
ErrSingular == Raise("LinAlgError", "Singular matrix")
ErrNotFitted == Raise("ValueError", "Model not fitted. Call fit first.")
ErrFeatures ==
    Raise("ValueError",
          "The number of features in X should be equal to the number of coefficients.")
ErrNonNumeric == Raise("ValueError", "Input contains non-numeric values.")
ErrNaN == Raise("ValueError", "Input contains NaN values.")
ErrInfinite == Raise("ValueError", "Input contains infinite values.")
ErrNotDataFrame == Raise("TypeError", "Input must be a pandas DataFrame")
ErrTwoPoints == Raise("ValueError", "DataFrame must have at least two data points")
ErrKey == Raise("KeyError", "column")

(***************************************************************************)
(* self.coef                                                               *)
(***************************************************************************)
None == [k |-> "None", v |-> <<>>]
NdArray(v) == [k |-> "ndarray", v |-> v]

(***************************************************************************)
(* fit                                                                     *)
(***************************************************************************)
\* X_np.T @ X_np
Gram(X_np) ==
    LET Xt == Transpose(Rows(X_np), X_np.shape[2])
    IN  MatMulT(Xt, Xt)

\* FitRaise with the fourth check written <= (as its message reads)
FitRaise_StrictlyMore(X, y) ==
    LET X_np == NpArray(X)
        y_np == NpArray(y)
    IN  IF X_np.ndim # 2 THEN ErrX2D
        ELSE IF y_np.ndim # 1 THEN ErrY1D
        ELSE IF X_np.shape[1] # y_np.shape[1] THEN ErrSamples
        ELSE IF X_np.shape[1] <= X_np.shape[2] THEN ErrUnderdetermined
        ELSE IF Singular(Gram(X_np)) THEN ErrSingular
        ELSE NoError

\* the four checks of fit, in order, then the inversion
FitRaise(X, y) ==
    LET X_np == NpArray(X)
        y_np == NpArray(y)
    IN  IF X_np.ndim # 2 THEN ErrX2D
        ELSE IF y_np.ndim # 1 THEN ErrY1D
        ELSE IF X_np.shape[1] # y_np.shape[1] THEN ErrSamples
        ELSE IF X_np.shape[1] < X_np.shape[2] THEN ErrUnderdetermined
        ELSE IF Singular(Gram(X_np)) THEN ErrSingular
        ELSE NoError

\* FitCoef returning the fitted values X_np @ w in place of w
FitCoef_FittedValues(X, y) ==
    LET X_np == NpArray(X)
        y_np == NpArray(y)
        Xm == Rows(X_np)
    IN  MatVec(Xm, MatVec(MatMulT(Inv(Gram(X_np)), Xm), Elems(y_np)))

\* np.linalg.inv(X_np.T @ X_np) @ X_np.T @ y_np
FitCoef(X, y) ==
    LET X_np == NpArray(X)
        y_np == NpArray(y)
        Xm == Rows(X_np)
    IN  MatVec(MatMulT(Inv(Gram(X_np)), Xm), Elems(y_np))

Called(op, args, raised, ret) == [op |-> op, args |-> args, raised |-> raised, ret |-> ret]

\* fit adding the new coefficients to those of the previous fit
fit_accumulating(X, y) ==
    LET e == FitRaise(X, y)
        w == FitCoef(X, y)
    IN  IF e # NoError
          THEN /\ last' = Called("fit", <<X, y>>, e, <<>>)
               /\ UNCHANGED <<coef, lastFit>>
          ELSE /\ coef' = IF coef # None /\ Len(coef.v) = Len(w)
                            THEN NdArray([i \in 1..Len(w) |-> Add(coef.v[i], w[i])])
                            ELSE NdArray(w)
               /\ last' = Called("fit", <<X, y>>, NoError, coef'.v)
               /\ lastFit' = [ok |-> TRUE, X |-> X, y |-> y]

\* fit clearing self.coef before it validates
fit_resetting(X, y) ==
    LET e == FitRaise(X, y)
    IN  IF e # NoError
          THEN /\ coef' = None
               /\ last' = Called("fit", <<X, y>>, e, <<>>)
               /\ UNCHANGED lastFit
          ELSE /\ coef' = NdArray(FitCoef(X, y))
               /\ last' = Called("fit", <<X, y>>, NoError, coef'.v)
               /\ lastFit' = [ok |-> TRUE, X |-> X, y |-> y]

fit(X, y) ==
    LET e == FitRaise(X, y)
    IN  IF e # NoError
          THEN /\ last' = Called("fit", <<X, y>>, e, <<>>)
               /\ UNCHANGED <<coef, lastFit>>
          ELSE /\ coef' = NdArray(FitCoef(X, y))
               /\ last' = Called("fit", <<X, y>>, NoError, coef'.v)
               /\ lastFit' = [ok |-> TRUE, X |-> X, y |-> y]

(***************************************************************************)
(* predict                                                                 *)
(***************************************************************************)
IsNaNAny(a) == \E i \in 1..Len(a.flat) : a.flat[i].k = "nan"
IsFiniteAll(a) == \A i \in 1..Len(a.flat) : a.flat[i].k = "num"

\* PredictRaise with the fitted-state check after the rank check
PredictRaise_RankFirst(c, X) ==
    LET X_np == NpArray(X)
    IN  IF X_np.ndim # 2 THEN ErrX2D
        ELSE IF c = None THEN ErrNotFitted
        ELSE IF X_np.shape[2] # Len(c.v) THEN ErrFeatures
        ELSE IF ~X_np.numeric THEN ErrNonNumeric
        ELSE IF IsNaNAny(X_np) THEN ErrNaN
        ELSE IF ~IsFiniteAll(X_np) THEN ErrInfinite
        ELSE NoError

\* PredictRaise with the isfinite check before the isnan check
PredictRaise_FiniteFirst(c, X) ==
    LET X_np == NpArray(X)
    IN  IF c = None THEN ErrNotFitted
        ELSE IF X_np.ndim # 2 THEN ErrX2D
        ELSE IF X_np.shape[2] # Len(c.v) THEN ErrFeatures
        ELSE IF ~X_np.numeric THEN ErrNonNumeric
        ELSE IF ~IsFiniteAll(X_np) THEN ErrInfinite
        ELSE IF IsNaNAny(X_np) THEN ErrNaN
        ELSE NoError

PredictRaise(c, X) ==
    LET X_np == NpArray(X)
    IN  IF c = None THEN ErrNotFitted
        ELSE IF X_np.ndim # 2 THEN ErrX2D
        ELSE IF X_np.shape[2] # Len(c.v) THEN ErrFeatures
        ELSE IF ~X_np.numeric THEN ErrNonNumeric
        ELSE IF IsNaNAny(X_np) THEN ErrNaN
        ELSE IF ~IsFiniteAll(X_np) THEN ErrInfinite
        ELSE NoError

\* X @ self.coef
PredictRet(c, X) == MatVec(Rows(NpArray(X)), c.v)

\* predict keeping its result in self.coef
predict_storing(X) ==
    LET e == PredictRaise(coef, X)
    IN  /\ last' = Called("predict", <<X>>, e,
                          IF e # NoError THEN <<>> ELSE PredictRet(coef, X))
        /\ coef' = IF e # NoError THEN coef ELSE NdArray(PredictRet(coef, X))
        /\ UNCHANGED lastFit

predict(X) ==
    LET e == PredictRaise(coef, X)
    IN  /\ last' = Called("predict", <<X>>, e,
                          IF e # NoError THEN <<>> ELSE PredictRet(coef, X))
        /\ UNCHANGED <<coef, lastFit>>

(***************************************************************************)
(* score                                                                   *)
(***************************************************************************)
DataFrame(n, columns, values) ==
    [k |-> "DataFrame", index |-> n, columns |-> columns, values |-> values]

IsDataFrame(df) == df.k = "DataFrame"
\* DataFrame.empty: any axis of length 0
DfEmpty(df) == df.index = 0 \/ Len(df.columns) = 0
DfLen(df) == df.index
DfHas(df, name) == \E i \in 1..Len(df.columns) : df.columns[i] = name
DfColumn(df, name) ==
    df.values[CHOOSE i \in 1..Len(df.columns) : df.columns[i] = name]

\* ScoreRaise with the length check before the isinstance check
ScoreRaise_LengthFirst(df, true_column, pred_column) ==
    IF (IF IsDataFrame(df) THEN DfEmpty(df) \/ DfLen(df) < 2 ELSE Len(df.items) < 2)
      THEN ErrTwoPoints
    ELSE IF ~IsDataFrame(df) THEN ErrNotDataFrame
    ELSE IF ~DfHas(df, true_column) \/ ~DfHas(df, pred_column) THEN ErrKey
    ELSE NoError

ScoreRaise(df, true_column, pred_column) ==
    IF ~IsDataFrame(df) THEN ErrNotDataFrame
    ELSE IF DfEmpty(df) \/ DfLen(df) < 2 THEN ErrTwoPoints
    ELSE IF ~DfHas(df, true_column) \/ ~DfHas(df, pred_column) THEN ErrKey
    ELSE NoError

Sq(a) == Mul(a, a)

\* ScoreRet with the quotient inverted
ScoreRet_Inverted(df, true_column, pred_column) ==
    LET y_true == DfColumn(df, true_column)
        y_pred == DfColumn(df, pred_column)
        n == Len(y_true)
        y_true_mean == Div(Sum(y_true), IntVal(n))
        SST == Sum([i \in 1..n |-> Sq(Sub(y_true[i], y_true_mean))])
        SSE == Sum([i \in 1..n |-> Sq(Sub(y_true[i], y_pred[i]))])
    IN  SubF(IntVal(1), Div(SST, SSE))

ScoreRet(df, true_column, pred_column) ==
    LET y_true == DfColumn(df, true_column)
        y_pred == DfColumn(df, pred_column)
        n == Len(y_true)
        y_true_mean == Div(Sum(y_true), IntVal(n))
        SST == Sum([i \in 1..n |-> Sq(Sub(y_true[i], y_true_mean))])
        SSE == Sum([i \in 1..n |-> Sq(Sub(y_true[i], y_pred[i]))])
    IN  SubF(IntVal(1), Div(SSE, SST))

score(df, true_column, pred_column) ==
    LET e == ScoreRaise(df, true_column, pred_column)
    IN  /\ last' = Called("score", <<df, true_column, pred_column>>, e,
                          IF e # NoError THEN <<>>
                          ELSE <<ScoreRet(df, true_column, pred_column)>>)
        /\ UNCHANGED <<coef, lastFit>>

(***************************************************************************)
(* Bounds and the arguments the calls are made with                        *)
(***************************************************************************)
MaxRows == 2
MaxCols == 3
MaxPredRows == 1
MaxTableRows == 3
MaxSamples == 2
MaxFeatures == 2
MaxVal == 1

Matrix(r, c, F(_, _)) == List([i \in 1..r |-> List([j \in 1..c |-> F(i, j)])])
Vector(r, G(_)) == List([i \in 1..r |-> G(i)])

Vander(i, j) == IntVal(i ^ (j - 1))
Multiples(i, j) == IntVal(i * j)
Lin(i) == IntVal(i)
One(i) == IntVal(1)
AllOnes(i, j) == IntVal(1)

\* objects np.array makes 0-, 1- and 3-dimensional
Scalar0D == IntVal(1)
Vector1D == Vector(2, Lin)
Cube3D == List(<<Matrix(1, 1, Vander)>>)

FitXs ==
    {Matrix(r, c, Vander) : r \in 1..MaxRows, c \in 1..MaxCols}
    \cup {Matrix(r, c, Multiples) : r \in 1..MaxRows, c \in 1..MaxCols}
    \cup {Scalar0D, Vector1D, Cube3D}

FitYs ==
    {Vector(r, Lin) : r \in 1..MaxRows}
    \cup {Vector(r, One) : r \in 1..MaxRows}
    \cup {Scalar0D, Matrix(2, 1, Vander)}

BadElems == {NaN, Inf(1), Inf(-1), Str}

\* an all-ones matrix with the cell (i, j) replaced by e
OneBad(r, c, i, j, e) ==
    LET F(a, b) == IF a = i /\ b = j THEN e ELSE IntVal(1)
    IN  Matrix(r, c, F)

\* an all-ones matrix with the first cell replaced by e1 and the last by e2
TwoBad(r, c, e1, e2) ==
    LET F(a, b) == IF a = 1 /\ b = 1 THEN e1
                   ELSE IF a = r /\ b = c THEN e2 ELSE IntVal(1)
    IN  Matrix(r, c, F)

PredictXs ==
    {Matrix(r, c, AllOnes) : r \in 1..MaxPredRows, c \in 1..MaxCols}
    \cup {OneBad(r, c, i, j, e) : r \in 1..MaxPredRows, c \in 1..MaxCols,
                                  i \in 1..MaxPredRows, j \in 1..MaxCols, e \in BadElems}
    \cup {TwoBad(r, c, e1, e2) : r \in 1..MaxPredRows, c \in 2..MaxCols,
                                 e1 \in BadElems, e2 \in BadElems}
    \cup {Scalar0D, Vector(2, LAMBDA i : NaN), Cube3D}

Fills(n) == {[i \in 1..n |-> IntVal(i)], [i \in 1..n |-> IntVal(1)]}

Tables ==
    {DataFrame(n, <<>>, <<>>) : n \in 0..MaxTableRows}
    \cup UNION {{DataFrame(n, <<"y_true">>, <<t>>) : t \in Fills(n)} : n \in 0..MaxTableRows}
    \cup UNION {{DataFrame(n, <<"y_true", "y_pred">>, <<t, p>>) :
                    t \in Fills(n), p \in Fills(n)} : n \in 0..MaxTableRows}

\* what score is given that is no DataFrame: lists of one and of three numbers
NotTables == {Vector(1, Lin), Vector(3, Lin)}

ColumnArgs == {<<"y_true", "y_pred">>, <<"y_pred", "y_true">>}

NoFit == [ok |-> FALSE, X |-> List(<<>>), y |-> List(<<>>)]
NoData ==
    [X |-> List(<<>>), y |-> List(<<>>), w |-> <<>>, Xp |-> List(<<>>), df |-> List(<<>>)]

(***************************************************************************)
(* The instance under any sequence of calls                                *)
(***************************************************************************)
Init ==
    /\ coef = None
    /\ last = Called("__init__", <<>>, NoError, <<>>)
    /\ lastFit = NoFit
    /\ data = NoData

Fit == \E X \in FitXs, y \in FitYs : fit(X, y) /\ UNCHANGED data
Predict == \E X \in PredictXs : predict(X) /\ UNCHANGED data
Score ==
    \E df \in Tables \cup NotTables, cols \in ColumnArgs :
        score(df, cols[1], cols[2]) /\ UNCHANGED data

Next == Fit \/ Predict \/ Score

Spec == Init /\ [][Next]_vars

(***************************************************************************)
(* fit and predict on noiseless data: every integer matrix X within the    *)
(* bounds with every weight vector w, y = X @ w; and the dataset of the    *)
(* documented scenario with its new sample                                 *)
(***************************************************************************)
Vals == {IntVal(v) : v \in 0..MaxVal}
Weights == {IntVal(-1), IntVal(2)}

\* the r x c matrix of Python lists with the elements f[i][j]
MatrixOf(f) == List([i \in 1..Len(f) |-> List(f[i])])

\* X @ w as a Python list
Targets(X, w) == List(MatVec(Rows(NpArray(X)), w))

Dataset(X, w, Xp) == [X |-> X, y |-> Targets(X, w), w |-> w, Xp |-> Xp, df |-> List(<<>>)]

ScenarioX == Matrix(3, 2, Vander)
ScenarioW == <<IntVal(0), IntVal(1)>>
ScenarioNew == List(<<List(<<IntVal(1), IntVal(4)>>)>>)

InitFit ==
    /\ coef = None
    /\ last = Called("__init__", <<>>, NoError, <<>>)
    /\ lastFit = NoFit
    /\ \/ \E r \in 1..MaxSamples, c \in 1..MaxFeatures :
            \E f \in [1..r -> [1..c -> Vals]], w \in [1..c -> Weights] :
                data = Dataset(MatrixOf(f), w, MatrixOf(f))
       \/ data \in {Dataset(ScenarioX, ScenarioW, ScenarioX),
                    Dataset(ScenarioX, ScenarioW, ScenarioNew)}

FitData == last.op = "__init__" /\ fit(data.X, data.y) /\ UNCHANGED data
PredictData == last.op = "fit" /\ predict(data.Xp) /\ UNCHANGED data

NextFit == FitData \/ PredictData

SpecFit == InitFit /\ [][NextFit]_vars

(***************************************************************************)
(* score on every two-column table of integers within the bounds, and on   *)
(* the tables of the documented scenario                                   *)
(***************************************************************************)
TableOf(t, p) ==
    [X |-> List(<<>>), y |-> List(<<>>), w |-> <<>>, Xp |-> List(<<>>),
     df |-> DataFrame(Len(t), <<"y_true", "y_pred">>, <<t, p>>)]

ScenarioTrue == <<IntVal(1), IntVal(2), IntVal(3), IntVal(4)>>
ScenarioMean == <<Num(5, 2), Num(5, 2), Num(5, 2), Num(5, 2)>>

InitScore ==
    /\ coef = None
    /\ last = Called("__init__", <<>>, NoError, <<>>)
    /\ lastFit = NoFit
    /\ \/ \E n \in 0..MaxTableRows :
            \E t \in [1..n -> Vals], p \in [1..n -> Vals] : data = TableOf(t, p)
       \/ data \in {TableOf(ScenarioTrue, ScenarioTrue),
                    TableOf(ScenarioTrue, ScenarioMean)}

ScoreData == last.op = "__init__" /\ score(data.df, "y_true", "y_pred") /\ UNCHANGED data

NextScore == ScoreData

SpecScore == InitScore /\ [][NextScore]_vars

(***************************************************************************)
(* Properties.  The errors of the specification's taxonomy are identified  *)
(* by the check of the code that raises them: NotFittedError is            *)
(* ErrNotFitted, the ShapeErrors are ErrX2D, ErrY1D, ErrSamples,            *)
(* ErrUnderdetermined and ErrFeatures, the data-quality ValueErrors are    *)
(* ErrNonNumeric, ErrNaN and ErrInfinite.                                  *)
(***************************************************************************)
LastX == last.args[1]
LastY == last.args[2]
Failed == last.raised # NoError

\* C1: as long as no fit has succeeded, every predict fails with the not-fitted
\* error, whatever X is and whatever failed fits and score calls came before.
C1_PredictBeforeFit ==
    (last.op = "predict" /\ ~lastFit.ok) => last.raised = ErrNotFitted

\* C1 witness: predict on a never-fitted instance with an X that is not 2-dimensional
\* and holds a NaN fails with the not-fitted error.
C1_Witness ==
    /\ last.op = "predict" /\ ~lastFit.ok
    /\ NpNdim(LastX) # 2 /\ IsNaNAny(NpArray(LastX))
    /\ last.raised = ErrNotFitted

\* the preconditions of fit, each stated on the arguments alone
FitV1(X, y) == NpNdim(X) # 2
FitV2(X, y) == NpNdim(y) # 1
FitV3(X, y) == NpShape(X)[1] # NpShape(y)[1]
FitV4(X, y) == NpShape(X)[1] < NpShape(X)[2]

HasKind(X, kind) == \E i \in 1..Len(NpFlat(X)) : NpFlat(X)[i].k = kind

\* C3: on a fitted instance predict reports the first violated precondition in the
\* order rank, feature count, non-numeric, NaN, infinite.
C3_PredictValidationOrder ==
    (last.op = "predict" /\ coef # None) =>
        LET X == LastX
            rank == NpNdim(X) # 2
            feat == NpShape(X)[2] # Len(coef.v)
        IN  /\ (last.raised = ErrX2D) <=> rank
            /\ (last.raised = ErrFeatures) <=> (~rank /\ feat)
            /\ (last.raised = ErrNonNumeric) <=> (~rank /\ ~feat /\ HasKind(X, "str"))
            /\ (last.raised = ErrNaN) <=>
                   (~rank /\ ~feat /\ ~HasKind(X, "str") /\ HasKind(X, "nan"))
            /\ (last.raised = ErrInfinite) <=>
                   (~rank /\ ~feat /\ ~HasKind(X, "str") /\ ~HasKind(X, "nan")
                    /\ HasKind(X, "inf"))
            /\ last.raised # ErrNotFitted

\* C3 witness: an X of the right feature count holding one NaN and one infinite
\* value fails with the NaN error.
C3_Witness ==
    /\ last.op = "predict" /\ coef # None
    /\ NpNdim(LastX) = 2 /\ NpShape(LastX)[2] = Len(coef.v)
    /\ HasKind(LastX, "nan") /\ HasKind(LastX, "inf")
    /\ last.raised = ErrNaN

\* C4: whenever coefficients are present there are as many as the features of the X
\* of the most recent successful fit, and predict rejects a 2-dimensional X with the
\* feature-count error exactly when its feature count differs from that X's.
C4_CoefLength ==
    /\ coef # None => (lastFit.ok /\ Len(coef.v) = NpShape(lastFit.X)[2])
    /\ (last.op = "predict" /\ lastFit.ok /\ NpNdim(LastX) = 2) =>
           ((last.raised = ErrFeatures) <=> (NpShape(LastX)[2] # NpShape(lastFit.X)[2]))

\* C4 witness: predict on an instance whose latest successful fit had two features
\* rejects a one-feature X.
C4_Witness ==
    /\ last.op = "predict" /\ lastFit.ok
    /\ NpShape(lastFit.X)[2] = 2
    /\ NpNdim(LastX) = 2 /\ NpShape(LastX)[2] = 1
    /\ last.raised = ErrFeatures

\* C5: a predict or score call, failing or not, on a fitted or unfitted instance,
\* leaves the coefficients as they were.
C5_PredictScoreFrame ==
    [][last'.op \in {"predict", "score"} => coef' = coef]_vars

\* C5 witness: a predict that succeeded on a fitted instance.
C5_Witness == last.op = "predict" /\ ~Failed /\ coef # None

\* X.T @ X @ c = X.T @ y: with X.T @ X invertible, c is determined by X and y
NormalEquations(X, y, c) ==
    LET X_np == NpArray(X)
        Xt == Transpose(Rows(X_np), X_np.shape[2])
    IN  MatVec(Gram(X_np), c) = MatVec(Xt, Elems(NpArray(y)))

Validated(X, y) == ~FitV1(X, y) /\ ~FitV2(X, y) /\ ~FitV3(X, y) /\ ~FitV4(X, y)

FitRecovers(extra) ==
    /\ (last.op = "fit" /\ Validated(data.X, data.y) /\ extra) =>
           (~Failed /\ last.ret = data.w /\ coef = NdArray(data.w))
    /\ (last.op = "predict" /\ Validated(data.X, data.y) /\ extra) =>
           /\ ~Failed
           /\ data.Xp = data.X => last.ret = Elems(NpArray(data.y))
           /\ (data.X = ScenarioX /\ data.Xp = ScenarioNew) => last.ret = <<IntVal(4)>>

Constant(t) == \A i \in 1..Len(t) : t[i] = t[1]

ScoreIsOne(extra) ==
    (last.op = "score" /\ DfLen(data.df) >= 2
     /\ DfColumn(data.df, "y_true") = DfColumn(data.df, "y_pred") /\ extra) =>
        (~Failed /\ last.ret = <<IntVal(1)>>)

\* C8 as stated: score is 1 on every table of two or more rows whose predicted
\* column equals its true column.
C8_Original == ScoreIsOne(TRUE)

\* C8 amended: the same, for tables whose true values are not all identical.
C8_PerfectScore == ScoreIsOne(~Constant(DfColumn(data.df, "y_true")))

\* C8 witness: a table of three rows with equal columns scored 1.
C8_Witness ==
    /\ last.op = "score" /\ DfLen(data.df) = 3
    /\ DfColumn(data.df, "y_true") = DfColumn(data.df, "y_pred")
    /\ last.ret = <<IntVal(1)>>

ScoreValidates(rejected(_)) ==
    last.op = "score" =>
        LET df == last.args[1]
        IN  /\ (last.raised = ErrNotDataFrame) <=> ~IsDataFrame(df)
            /\ IsDataFrame(df) => ((last.raised = ErrTwoPoints) <=> rejected(df))

FewRows(df) == DfLen(df) < 2
FewRowsOrNoColumns(df) == DfLen(df) < 2 \/ Len(df.columns) = 0

\* C9 as stated: what is no table fails with TypeError; a table fails with
\* ValueError exactly when it has fewer than two rows.
C9_Original == ScoreValidates(FewRows)

\* C9 amended: a table fails with ValueError exactly when it has fewer than two
\* rows or no columns; fitted or not makes no difference.
C9_ScoreValidation == ScoreValidates(FewRowsOrNoColumns)

\* C9 witness: on a fitted instance a one-element list fails with TypeError.
C9_Witness ==
    /\ last.op = "score" /\ coef # None
    /\ ~IsDataFrame(last.args[1]) /\ Len(last.args[1].items) < 2
    /\ last.raised = ErrNotDataFrame

\* C10: a fit that fails, on a validation check or on the singular matrix, leaves
\* the coefficients as they were, and a fitted instance never becomes unfitted.
C10_FailedFitFrame ==
    [][/\ (last'.op = "fit" /\ last'.raised # NoError) => coef' = coef
       /\ coef # None => coef' # None]_vars

\* C10 witness: a fit has failed on the singular matrix on a fitted instance.
C10_Witness == last.op = "fit" /\ last.raised = ErrSingular /\ coef # None

====
